---- MODULE Spec2Model ----
(***************************************************************************)
(* A model of kaptan's Kaptan class (src/kaptan/__init__.py): the          *)
(* configuration tree, the active handler, and the operations upsert,      *)
(* import_config, get, add, remove and export.                             *)
(*                                                                         *)
(* Python values are tagged records.  Strings (dotted paths, mapping keys, *)
(* file names, string scalars) are sequences of one-character strings, so  *)
(* that str.split, int(), os.path.splitext and str.endswith are computed   *)
(* character by character.                                                 *)
(*                                                                         *)
(* Spec runs the path engine (get, add, remove over every path of Paths);  *)
(* DispatchSpec runs the handler dispatch (every import and export).       *)
(***************************************************************************)
EXTENDS Integers, Sequences, FiniteSets, TLC

VARIABLES configuration_data, handler, last

vars == <<configuration_data, handler, last>>

(***************************************************************************)
(* Bounds of the model.                                                    *)
(***************************************************************************)
\* the longest dotted path the operations are called with, in segments
MaxSegs == 2
\* the largest tree the store is allowed to grow to, in nodes below the root
MaxNodes == 3

(***************************************************************************)
(* Python values.                                                          *)
(***************************************************************************)
MapN(kv) == [t |-> "map", kv |-> kv]
ListN(items) == [t |-> "list", items |-> items]
StrN(s) == [t |-> "str", s |-> s]
IntN(n) == [t |-> "int", n |-> n]
NoneN == [t |-> "none"]
EmptyMap == MapN(<<>>)

\* isinstance(x, Mapping): dict
IsMapping(x) == x.t = "map"
\* isinstance(x, Sequence): list, and str, which collections registers as a Sequence
IsSequence(x) == x.t \in {"list", "str"}
\* isinstance(x, list)
IsList(x) == x.t = "list"
\* isinstance(x, dict)
IsDict(x) == x.t = "map"

\* the outcome of an expression or call: a value, or the exception raised
Ok(v) == [err |-> "OK", val |-> v]
Raise(e) == [err |-> e, val |-> NoneN]

\* SENTINEL = object()
SENTINEL == [t |-> "sentinel"]

RECURSIVE NodeCount(_)
NodeCount(x) ==
    IF x.t = "map" THEN
        IF DOMAIN x.kv = {} THEN 0
        ELSE LET k == CHOOSE k \in DOMAIN x.kv : TRUE
             IN 1 + NodeCount(x.kv[k])
                  + NodeCount(MapN([j \in DOMAIN x.kv \ {k} |-> x.kv[j]]))
    ELSE IF x.t = "list" THEN
        IF x.items = <<>> THEN 0
        ELSE 1 + NodeCount(Head(x.items)) + NodeCount(ListN(Tail(x.items)))
    ELSE 0

(***************************************************************************)
(* String functions.                                                       *)
(***************************************************************************)
RECURSIVE split(_, _)
\* s.split(sep): the pieces of s between the occurrences of the character sep
split(s, sep) ==
    IF \A i \in 1..Len(s) : s[i] # sep THEN <<s>>
    ELSE LET i == CHOOSE i \in 1..Len(s) :
                      s[i] = sep /\ \A j \in 1..(i - 1) : s[j] # sep
         IN <<SubSeq(s, 1, i - 1)>> \o split(SubSeq(s, i + 1, Len(s)), sep)

Digits == {"0", "1", "2", "3", "4", "5", "6", "7", "8", "9"}
DigitVal(c) ==
    CASE c = "0" -> 0 [] c = "1" -> 1 [] c = "2" -> 2 [] c = "3" -> 3
      [] c = "4" -> 4 [] c = "5" -> 5 [] c = "6" -> 6 [] c = "7" -> 7
      [] c = "8" -> 8 [] c = "9" -> 9

RECURSIVE DecimalVal(_)
DecimalVal(ds) ==
    IF ds = <<>> THEN 0
    ELSE 10 * DecimalVal(SubSeq(ds, 1, Len(ds) - 1)) + DigitVal(ds[Len(ds)])

\* int(s): an optional sign followed by one or more decimal digits, else ValueError
int(s) ==
    LET signed == s # <<>> /\ s[1] \in {"-", "+"}
        ds == IF signed THEN Tail(s) ELSE s
    IN IF ds = <<>> \/ \E i \in 1..Len(ds) : ds[i] \notin Digits
       THEN Raise("ValueError")
       ELSE Ok(IF signed /\ s[1] = "-" THEN 0 - DecimalVal(ds) ELSE DecimalVal(ds))

\* s.endswith(suffix)
endswith(s, suffix) ==
    /\ Len(s) >= Len(suffix)
    /\ SubSeq(s, Len(s) - Len(suffix) + 1, Len(s)) = suffix

\* sub in s, for two strings
IsSubstring(sub, s) ==
    \E i \in 1..(Len(s) + 1) :
        i + Len(sub) - 1 <= Len(s) /\ SubSeq(s, i, i + Len(sub) - 1) = sub

(***************************************************************************)
(* Subscripting, membership, item assignment and deletion.                 *)
(***************************************************************************)
\* SeqIndex, were an index below 0 out of range
SeqIndex_NoFromEnd(n, i) ==
    IF 0 <= i /\ i < n THEN Ok(i + 1) ELSE Raise("IndexError")

\* seq[i] for an int i: negative i counts from the end
SeqIndex(n, i) ==
    IF 0 <= i /\ i < n THEN Ok(i + 1)
    ELSE IF i < 0 /\ 0 - n <= i THEN Ok(n + i + 1)
    ELSE Raise("IndexError")

\* x[i] for an int i, x a list or a str
IntItem(x, i) ==
    IF x.t = "list" THEN
        LET p == SeqIndex(Len(x.items), i)
        IN IF p.err = "OK" THEN Ok(x.items[p.val]) ELSE p
    ELSE
        LET p == SeqIndex(Len(x.s), i)
        IN IF p.err = "OK" THEN Ok(StrN(<<x.s[p.val]>>)) ELSE p

\* x[k] for a str k
StrItem(x, k) ==
    IF x.t = "map" THEN
        IF k \in DOMAIN x.kv THEN Ok(x.kv[k]) ELSE Raise("KeyError")
    ELSE Raise("TypeError")

\* k in x, for a str k
Contains(x, k) ==
    IF x.t = "map" THEN Ok(k \in DOMAIN x.kv)
    ELSE IF x.t = "list" THEN Ok(\E i \in 1..Len(x.items) : x.items[i] = StrN(k))
    ELSE IF x.t = "str" THEN Ok(IsSubstring(k, x.s))
    ELSE Raise("TypeError")

\* x with x[k] = v carried out, x a dict
DictSet(x, k, v) ==
    MapN([j \in DOMAIN x.kv \cup {k} |-> IF j = k THEN v ELSE x.kv[j]])

\* x with del x[k] carried out, x a dict holding k
DictDel(x, k) == MapN([j \in DOMAIN x.kv \ {k} |-> x.kv[j]])

\* the items of a list with the one at (1-based) position p removed
WithoutItem(items, p) == SubSeq(items, 1, p - 1) \o SubSeq(items, p + 1, Len(items))

(***************************************************************************)
(* Kaptan._get and Kaptan.get                                              *)
(***************************************************************************)
RECURSIVE _get_walk(_, _)
\* the loop of _get from the node current_data over the remaining chunks
_get_walk(current_data, chunks) ==
    IF chunks = <<>> THEN Ok(current_data)
    ELSE IF IsMapping(current_data) THEN
        LET r == StrItem(current_data, Head(chunks))
        IN IF r.err = "OK" THEN _get_walk(r.val, Tail(chunks)) ELSE r
    ELSE IF IsSequence(current_data) THEN
        LET chunk == int(Head(chunks))
        IN IF chunk.err # "OK" THEN chunk
           ELSE LET r == IntItem(current_data, chunk.val)
                IN IF r.err = "OK" THEN _get_walk(r.val, Tail(chunks)) ELSE r
    ELSE Ok(current_data)

_get(data, key) == _get_walk(data, split(key, "."))

(***************************************************************************)
(* Handlers.  The handler classes live in kaptan/handlers/, outside the    *)
(* modelled file; load and dump are modelled from their documented         *)
(* contract.                                                               *)
(***************************************************************************)
NoHandler == "None"

HANDLER_MAP == {"json", "dict", "yaml", "file", "ini"}

\* HANDLER_EXT.get(ext, None)
HANDLER_EXT(ext) ==
    CASE ext = <<"i", "n", "i">> -> "ini"
      [] ext = <<"c", "o", "n", "f">> -> "ini"
      [] ext = <<"y", "a", "m", "l">> -> "yaml"
      [] ext = <<"y", "m", "l">> -> "yaml"
      [] ext = <<"j", "s", "o", "n">> -> "json"
      [] ext = <<"p", "y">> -> "file"
      [] OTHER -> NoHandler

\* the texts the format handlers parse, and the trees they parse them to
Parses ==
    { [h |-> "yaml", text |-> <<"a", ":", "1">>,
       tree |-> MapN([k \in {<<"a">>} |-> IntN(1)])],
      [h |-> "json", text |-> <<"[", "1", "]">>,
       tree |-> ListN(<<IntN(1)>>)],
      [h |-> "file", text |-> <<"/", "m", ".", "p", "y">>,
       tree |-> MapN([k \in {<<"a">>} |-> StrN(<<"a">>)])] }

\* handler.load(data): the dict handler passes data through, the file handler
\* executes the file at the path data, the others parse the text data
load(h, data) ==
    IF h = "dict" THEN Ok(data)
    ELSE IF \E p \in Parses : p.h = h /\ p.text = data.s
         THEN Ok((CHOOSE p \in Parses : p.h = h /\ p.text = data.s).tree)
         ELSE Raise("LoadError")

\* handler.dump(data): the dict handler passes data through, the others
\* produce a text in their format
dump(h, data) ==
    IF h = "dict" THEN data ELSE [t |-> "text", fmt |-> h, of |-> data]

(***************************************************************************)
(* The file system import_config looks at.                                 *)
(***************************************************************************)
cwd == <<"/">>
home == <<"/">>

\* the files that exist, by absolute path, and their text
FileText ==
    [p \in { <<"/", "s", ".", "y", "m", "l">>,
             <<"/", "d", ".", "t", "x", "t">>,
             <<"/", "m", ".", "p", "y">> }
     |-> IF p = <<"/", "s", ".", "y", "m", "l">> THEN <<"a", ":", "1">>
         ELSE IF p = <<"/", "d", ".", "t", "x", "t">> THEN <<"[", "1", "]">>
         ELSE <<"a", "=", "a">>]

\* os.path.expanduser
expanduser(p) == IF p # <<>> /\ p[1] = "~" THEN home \o Tail(p) ELSE p
\* os.path.abspath
abspath(p) == IF p # <<>> /\ p[1] = "/" THEN p ELSE cwd \o p
\* os.path.isfile
isfile(p) == abspath(p) \in DOMAIN FileText
\* open(p).read()
read(p) == FileText[abspath(p)]

\* the largest i with p[i] = c, 0 when there is none
LastIndexOf(p, c) ==
    IF \E i \in 1..Len(p) : p[i] = c
    THEN CHOOSE i \in 1..Len(p) : p[i] = c /\ \A j \in (i + 1)..Len(p) : p[j] # c
    ELSE 0

\* os.path.splitext(p)[1][1:]
splitext_ext(p) ==
    LET sepIndex == LastIndexOf(p, "/")
        dotIndex == LastIndexOf(p, ".")
    IN IF dotIndex > sepIndex
          /\ \E i \in (sepIndex + 1)..(dotIndex - 1) : p[i] # "."
       THEN SubSeq(p, dotIndex + 1, Len(p))
       ELSE <<>>

(***************************************************************************)
(* Kaptan.export                                                           *)
(***************************************************************************)
\* export(handler): handler = NoHandler stands for the omitted argument
export(self_handler, data, h) ==
    LET handler_class == IF h = NoHandler THEN self_handler ELSE h
    IN IF h # NoHandler /\ h \notin HANDLER_MAP THEN Raise("KeyError")
       ELSE IF handler_class = NoHandler THEN Raise("AttributeError")
       ELSE Ok(dump(handler_class, data))

(***************************************************************************)
(* Kaptan.get, continued                                                   *)
(***************************************************************************)
\* get(key, default): key = <<>> stands for None and for ''
get(self_handler, data, key, default) ==
    IF key = <<>> THEN export(self_handler, data, "dict")
    ELSE LET r == _get(data, key)
         IN IF r.err \in {"KeyError", "ValueError", "IndexError"} /\ default # SENTINEL
            THEN Ok(default)
            ELSE r

(***************************************************************************)
(* Kaptan.add                                                              *)
(* The walk returns the exception raised, if any, and the node it started  *)
(* from as the in-place assignments made so far have left it.              *)
(***************************************************************************)
Done(e, node) == [err |-> e, node |-> node]

\* add_target, were the value stored before the duplicate key is reported
add_target_overwrite(current_data, new_key, value, replace, is_key_exist) ==
    IF replace THEN
        IF IsDict(current_data) THEN Done("OK", DictSet(current_data, new_key, value))
        ELSE Done("TypeError", current_data)
    ELSE
        LET t == StrItem(current_data, new_key)
        IN IF t.err = "KeyError" THEN Done("OK", DictSet(current_data, new_key, value))
           ELSE IF t.err # "OK" THEN Done(t.err, current_data)
           ELSE IF IsList(t.val) THEN
               Done("OK", DictSet(current_data, new_key, ListN(Append(t.val.items, value))))
           ELSE IF is_key_exist THEN
               Done("DuplicateKey", DictSet(current_data, new_key, value))
           ELSE Done("OK", current_data)

\* lines 143-151: the try block at the target key
add_target(current_data, new_key, value, replace, is_key_exist) ==
    IF replace THEN
        IF IsDict(current_data) THEN Done("OK", DictSet(current_data, new_key, value))
        ELSE Done("TypeError", current_data)
    ELSE
        LET t == StrItem(current_data, new_key)
        IN IF t.err = "KeyError" THEN Done("OK", DictSet(current_data, new_key, value))
           ELSE IF t.err # "OK" THEN Done(t.err, current_data)
           ELSE IF IsList(t.val) THEN
               Done("OK", DictSet(current_data, new_key, ListN(Append(t.val.items, value))))
           ELSE IF is_key_exist THEN Done("DuplicateKey", current_data)
           ELSE Done("OK", current_data)

\* container_item, were a missing chunk left to raise KeyError
container_item_no_vivify(current_data, chunk) ==
    LET r == StrItem(current_data, chunk)
    IN [err |-> r.err, val |-> r.val, created |-> FALSE]

\* lines 136-142: current_data[chunk], created as {} on KeyError
container_item(current_data, chunk) ==
    LET r == StrItem(current_data, chunk)
    IN IF r.err = "KeyError"
       THEN [err |-> "OK", val |-> EmptyMap, created |-> TRUE]
       ELSE [err |-> r.err, val |-> r.val, created |-> FALSE]

RECURSIVE add_walk(_, _, _, _, _, _)
\* lines 135-142: the loop over the container path, then the target
add_walk(current_data, keys, new_key, value, replace, is_key_exist) ==
    IF keys = <<>> THEN add_target(current_data, new_key, value, replace, is_key_exist)
    ELSE
        LET chunk == Head(keys)
            sub == container_item(current_data, chunk)
            \* line 137: not replace and new_key in current_data[chunk]
            c == IF replace \/ sub.created THEN Ok(FALSE) ELSE Contains(sub.val, new_key)
        IN IF sub.err # "OK" THEN Done(sub.err, current_data)
           ELSE IF c.err # "OK" THEN Done(c.err, current_data)
           ELSE LET r == add_walk(sub.val, Tail(keys), new_key, value, replace,
                                  is_key_exist \/ c.val)
                IN Done(r.err, DictSet(current_data, chunk, r.node))

add(data, key, value, replace) ==
    LET keys == split(key, ".")
    IN IF Len(keys) > 1
       THEN add_walk(data, SubSeq(keys, 1, Len(keys) - 1), keys[Len(keys)],
                     value, replace, FALSE)
       ELSE add_target(data, keys[1], value, replace, FALSE)

(***************************************************************************)
(* Kaptan.remove                                                           *)
(***************************************************************************)
\* lines 163-166: index is NoneN or an IntN
remove_target(current_data, exact_key, index) ==
    LET t == StrItem(current_data, exact_key)
    IN IF index.t = "int" /\ t.err # "OK" THEN Done(t.err, current_data)
       ELSE IF index.t = "int" /\ IsList(t.val) THEN
           LET p == SeqIndex(Len(t.val.items), index.n)
           IN IF p.err # "OK" THEN Done(p.err, current_data)
              ELSE Done("OK", DictSet(current_data, exact_key,
                                      ListN(WithoutItem(t.val.items, p.val))))
       ELSE IF t.err # "OK" THEN Done(t.err, current_data)
       ELSE Done("OK", DictDel(current_data, exact_key))

RECURSIVE remove_walk(_, _, _, _)
\* lines 161-162: the loop over keys, then the target
remove_walk(current_data, keys, exact_key, index) ==
    IF keys = <<>> THEN remove_target(current_data, exact_key, index)
    ELSE
        LET sub == StrItem(current_data, Head(keys))
        IN IF sub.err # "OK" THEN Done(sub.err, current_data)
           ELSE LET r == remove_walk(sub.val, Tail(keys), exact_key, index)
                IN Done(r.err, DictSet(current_data, Head(keys), r.node))

\* lines 157-160: keys.pop() only when there is more than one key
remove_keys(keys) == IF Len(keys) > 1 THEN SubSeq(keys, 1, Len(keys) - 1) ELSE keys

remove(data, key, index) ==
    LET keys == split(key, ".")
    IN remove_walk(data, remove_keys(keys), keys[Len(keys)], index)

(***************************************************************************)
(* Kaptan.upsert                                                           *)
(***************************************************************************)
upsert(data, key, value) ==
    IF IsDict(data) THEN Done("OK", DictSet(data, key, value))
    ELSE Done("AttributeError", data)

(***************************************************************************)
(* Kaptan._is_python_file and Kaptan.import_config                         *)
(***************************************************************************)
_is_python_file(value) ==
    splitext_ext(value) = <<"p", "y">> \/ isfile(value \o <<".", "p", "y">>)

\* file_handler, were the extension to win over the active handler
file_handler_by_ext(self_handler, value) ==
    IF HANDLER_EXT(splitext_ext(value)) # NoHandler THEN HANDLER_EXT(splitext_ext(value))
    ELSE self_handler

\* lines 70-75: the handler an existing non-python file is loaded with
file_handler(self_handler, value) ==
    IF self_handler # NoHandler THEN self_handler ELSE HANDLER_EXT(splitext_ext(value))

Imported(e, h, data) == [err |-> e, handler |-> h, data |-> data]

\* the handler is h by now; line 91 loads data with it
import_load(h, old, data) ==
    LET r == load(h, data)
    IN IF r.err = "OK" THEN Imported("OK", h, r.val) ELSE Imported(r.err, h, old)

import_config(self_handler, old, value) ==
    IF IsDict(value) THEN import_load("dict", old, value)
    ELSE IF isfile(value.s) /\ ~_is_python_file(value.s) THEN
        LET h == file_handler(self_handler, value.s)
        IN IF h \notin HANDLER_MAP THEN Imported("UnresolvedHandler", self_handler, old)
           ELSE import_load(h, old, StrN(read(value.s)))
    ELSE IF _is_python_file(value.s) THEN
        LET v == IF endswith(value.s, <<".", "p", "y">>) THEN value.s
                 ELSE value.s \o <<".", "p", "y">>
            data == abspath(expanduser(v))
        IN IF ~isfile(data) THEN Imported("IOError", "file", old)
           ELSE import_load("file", old, StrN(data))
    ELSE IF self_handler = NoHandler THEN Imported("UnresolvedHandler", self_handler, old)
    ELSE import_load(self_handler, old, value)

(***************************************************************************)
(* The arguments the operations are called with.                           *)
(***************************************************************************)
\* path segments: a name, an index, a negative index
Segs == { <<"a">>, <<"0">>, <<"-", "1">> }

RECURSIVE join(_)
\* ".".join(ss)
join(ss) == IF Len(ss) = 1 THEN ss[1] ELSE ss[1] \o <<".">> \o join(Tail(ss))

\* the dotted paths of one to MaxSegs segments
Paths == { join(ss) : ss \in UNION { [1..n -> Segs] : n \in 1..MaxSegs } }

AddValues == { IntN(1), StrN(<<"a">>), ListN(<<IntN(1)>>) }
Indexes == { NoneN, IntN(0), IntN(-1) }
Defaults == { SENTINEL, IntN(-1) }

\* the arguments of the path engine's runs: the store is built with the JSON
\* handler, and imports the JSON text of a list
CtorHandlers == { "json" }
ImportValues == { StrN(<<"[", "1", "]">>) }
ExportHandlers == { NoHandler }

\* the arguments of the handler dispatch's runs
DispatchCtorHandlers == { NoHandler, "json" }
DispatchPaths == { <<"a">> }
DispatchAddValues == { IntN(1) }
DispatchExportHandlers == { NoHandler, "yaml" }
DispatchImportValues ==
    { MapN([k \in {<<"a">>} |-> IntN(1)]),
      StrN(<<"s", ".", "y", "m", "l">>),     \* an existing YAML file
      StrN(<<"d", ".", "t", "x", "t">>),     \* an existing file, unknown extension
      StrN(<<"m">>),                         \* no such file, but m.py exists
      StrN(<<"n", ".", "p", "y">>),          \* a .py file that does not exist
      StrN(<<"s">>),                         \* no file, no extension
      StrN(<<"[", "1", "]">>) }              \* raw JSON text

(***************************************************************************)
(* The store and its caller.  The store is used by one caller, one call at *)
(* a time (spec section 5): last is the call that has just returned, with  *)
(* its arguments, the tree and the handler before it, and its outcome; it  *)
(* is Idle once the caller has taken the result.                           *)
(***************************************************************************)
Call(op, key, value, replace, index, default, pre, preh, err, ret) ==
    [op |-> op, key |-> key, value |-> value, replace |-> replace, index |-> index,
     default |-> default, pre |-> pre, preh |-> preh, err |-> err, ret |-> ret]

Idle == Call("idle", <<>>, NoneN, FALSE, NoneN, SENTINEL, EmptyMap, NoHandler, "OK", NoneN)

\* __init__(handler), for a handler of H
Construct(H) ==
    /\ configuration_data = EmptyMap
    /\ handler \in H
    /\ last = Idle

Init == Construct(CtorHandlers)

Get(key, default) ==
    LET r == get(handler, configuration_data, key, default)
    IN /\ last = Idle
       /\ last' = Call("get", key, NoneN, FALSE, NoneN, default,
                       configuration_data, handler, r.err, r.val)
       /\ UNCHANGED <<configuration_data, handler>>

Add(key, value, replace) ==
    LET r == add(configuration_data, key, value, replace)
    IN /\ last = Idle
       /\ NodeCount(r.node) <= MaxNodes
       /\ configuration_data' = r.node
       /\ last' = Call("add", key, value, replace, NoneN, SENTINEL,
                       configuration_data, handler, r.err, NoneN)
       /\ UNCHANGED handler

Remove(key, index) ==
    LET r == remove(configuration_data, key, index)
    IN /\ last = Idle
       /\ configuration_data' = r.node
       /\ last' = Call("remove", key, NoneN, FALSE, index, SENTINEL,
                       configuration_data, handler, r.err, NoneN)
       /\ UNCHANGED handler

Upsert(key, value) ==
    LET r == upsert(configuration_data, key, value)
    IN /\ last = Idle
       /\ NodeCount(r.node) <= MaxNodes
       /\ configuration_data' = r.node
       /\ last' = Call("upsert", key, value, FALSE, NoneN, SENTINEL,
                       configuration_data, handler, r.err, NoneN)
       /\ UNCHANGED handler

ImportConfig(value) ==
    LET r == import_config(handler, configuration_data, value)
    IN /\ last = Idle
       /\ NodeCount(r.data) <= MaxNodes
       /\ configuration_data' = r.data
       /\ handler' = r.handler
       /\ last' = Call("import_config", <<>>, value, FALSE, NoneN, SENTINEL,
                       configuration_data, handler, r.err, NoneN)

\* export(handler): the argument is kept in last.value, as a handler name
Export(h) ==
    LET r == export(handler, configuration_data, h)
    IN /\ last = Idle
       /\ last' = Call("export", <<>>, [t |-> "handler", name |-> h], FALSE, NoneN, SENTINEL,
                       configuration_data, handler, r.err, r.val)
       /\ UNCHANGED <<configuration_data, handler>>

\* the caller takes the result of the call and is ready for the next call
Return ==
    /\ last # Idle
    /\ last' = Idle
    /\ UNCHANGED <<configuration_data, handler>>

Next ==
    \/ \E key \in Paths \cup {<<>>}, default \in Defaults : Get(key, default)
    \/ \E key \in Paths, value \in AddValues, replace \in BOOLEAN : Add(key, value, replace)
    \/ \E key \in Paths, index \in Indexes : Remove(key, index)
    \/ \E key \in Segs, value \in AddValues : Upsert(key, value)
    \/ \E value \in ImportValues : ImportConfig(value)
    \/ \E h \in ExportHandlers : Export(h)
    \/ Return

\* the path engine: every path of Paths over the trees add, remove and upsert build
Spec == Init /\ [][Next]_vars

DispatchInit == Construct(DispatchCtorHandlers)

DispatchNext ==
    \/ \E key \in DispatchPaths \cup {<<>>}, default \in Defaults : Get(key, default)
    \/ \E key \in DispatchPaths, value \in DispatchAddValues, replace \in BOOLEAN :
           Add(key, value, replace)
    \/ \E key \in DispatchPaths, index \in Indexes : Remove(key, index)
    \/ \E key \in DispatchPaths, value \in DispatchAddValues : Upsert(key, value)
    \/ \E value \in DispatchImportValues : ImportConfig(value)
    \/ \E h \in DispatchExportHandlers : Export(h)
    \/ Return

\* the handler dispatch: every import and export, between a few path calls
DispatchSpec == DispatchInit /\ [][DispatchNext]_vars

(***************************************************************************)
(* What the specification says of a tree, written without the operations   *)
(* above: the node a path names, and the walk of section 4.1.              *)
(***************************************************************************)
Absent == [t |-> "absent"]
Scalars == {"int", "str", "none", "bool"}

\* the segments of a dotted path, the container path and the target key
Segments(key) == split(key, ".")
ContainerPath(key) == SubSeq(Segments(key), 1, Len(Segments(key)) - 1)
TargetKey(key) == Segments(key)[Len(Segments(key))]

RECURSIVE NodeAt(_, _)
\* the node reached from node through Mappings by the keys segs, or Absent
NodeAt(node, segs) ==
    IF segs = <<>> THEN node
    ELSE IF node.t = "map" /\ Head(segs) \in DOMAIN node.kv
         THEN NodeAt(node.kv[Head(segs)], Tail(segs))
         ELSE Absent

RECURSIVE ReplaceAt(_, _, _)
\* node with the node at segs replaced by new
ReplaceAt(node, segs, new) ==
    IF segs = <<>> THEN new
    ELSE MapN([k \in DOMAIN node.kv |->
                 IF k = Head(segs) THEN ReplaceAt(node.kv[k], Tail(segs), new)
                 ELSE node.kv[k]])

RECURSIVE Nest(_, _)
\* {s1: {s2: ... {sn: v}}}
Nest(segs, v) ==
    IF segs = <<>> THEN v ELSE MapN([k \in {Head(segs)} |-> Nest(Tail(segs), v)])

DigitChar(d) ==
    CASE d = 0 -> "0" [] d = 1 -> "1" [] d = 2 -> "2" [] d = 3 -> "3" [] d = 4 -> "4"
      [] d = 5 -> "5" [] d = 6 -> "6" [] d = 7 -> "7" [] d = 8 -> "8" [] d = 9 -> "9"

RECURSIVE Numeral(_)
\* the base-10 numeral of n >= 0
Numeral(n) ==
    IF n < 10 THEN <<DigitChar(n)>> ELSE Numeral(n \div 10) \o <<DigitChar(n % 10)>>

RECURSIVE Pow10(_)
Pow10(n) == IF n = 0 THEN 1 ELSE 10 * Pow10(n - 1)

\* seg is a base-10 numeral of the integer i
Reads(seg, i) ==
    IF i >= 0 THEN seg = Numeral(i) ELSE seg = <<"-">> \o Numeral(0 - i)

\* the integers a segment of that length can be a numeral of
Readable(seg) == (0 - Pow10(Len(seg)))..Pow10(Len(seg))

\* the positions a segment may name in a sequence of n items, counted from 0;
\* with fromEnd, also -1 .. -n counted from the end
ValidIndex(n, i, fromEnd) == (0 <= i /\ i < n) \/ (fromEnd /\ i < 0 /\ 0 - n <= i)
Position(n, i) == IF i >= 0 THEN i + 1 ELSE n + i + 1

RECURSIVE Walk(_, _, _)
\* the walk of section 4.1 from node over segs; "Scalar" when a Scalar is
\* reached while segments remain, with the scalar
Walk(node, segs, fromEnd) ==
    IF segs = <<>> THEN Ok(node)
    ELSE IF node.t = "map" THEN
        IF Head(segs) \in DOMAIN node.kv
        THEN Walk(node.kv[Head(segs)], Tail(segs), fromEnd)
        ELSE Raise("KeyError")
    ELSE IF node.t = "list" THEN
        IF \A i \in Readable(Head(segs)) : ~Reads(Head(segs), i) THEN Raise("ValueError")
        ELSE LET i == CHOOSE i \in Readable(Head(segs)) : Reads(Head(segs), i)
             IN IF ValidIndex(Len(node.items), i, fromEnd)
                THEN Walk(node.items[Position(Len(node.items), i)], Tail(segs), fromEnd)
                ELSE Raise("IndexError")
    ELSE [err |-> "Scalar", val |-> node]

\* what get returns for the walk's outcome w and the default given
Returned(w, default) ==
    IF w.err = "OK" \/ default = SENTINEL THEN w ELSE Ok(default)

\* the outcome of the call last
Outcome == [err |-> last.err, val |-> last.ret]

\* get(key) with no default, called now
GetNow(key) == get(handler, configuration_data, key, SENTINEL)

(***************************************************************************)
(* C1                                                                      *)
(***************************************************************************)
\* C1, as stated: get(p, default) returns the outcome of the segment-wise walk, a
\* Sequence index being valid when it is one of 0 .. len-1 and IndexOutOfRange
\* otherwise; an error gives the default when there is one.
C1_GetWalksTree ==
    (last.op = "get" /\ last.key # <<>>) =>
        LET w == Walk(last.pre, Segments(last.key), FALSE)
        IN w.err # "Scalar" => Outcome = Returned(w, last.default)

\* C1, amended: get(p, default) returns the outcome of the segment-wise walk, a
\* Sequence index i being valid when -len <= i < len, a negative i counting
\* from the end; an error gives the default when there is one.
C1_GetWalksTreeFromEnd ==
    (last.op = "get" /\ last.key # <<>>) =>
        LET w == Walk(last.pre, Segments(last.key), TRUE)
        IN w.err # "Scalar" => Outcome = Returned(w, last.default)

\* a get whose last segment is -1, at a non-empty list, has returned an item
C1_Witness ==
    /\ last.op = "get" /\ last.key # <<>>
    /\ TargetKey(last.key) = <<"-", "1">>
    /\ NodeAt(last.pre, ContainerPath(last.key)).t = "list"
    /\ last.err = "OK"
    /\ last.ret = IntN(1)

(***************************************************************************)
(* C2                                                                      *)
(***************************************************************************)
\* C2: after an add(p, v) with replace=false that returned without error, get(p)
\* returns v, or, when the target key held a Sequence before, that sequence
\* with v appended.
C2_AddThenGet ==
    (last.op = "add" /\ ~last.replace /\ last.err = "OK") =>
        LET old == NodeAt(last.pre, Segments(last.key))
        IN GetNow(last.key) =
               IF old.t = "list" THEN Ok(ListN(Append(old.items, last.value)))
               ELSE Ok(last.value)

(***************************************************************************)
(* C3                                                                      *)
(***************************************************************************)
\* C3: after a remove(p) with no index that returned without error, the target
\* key is gone from the Mapping the container path reaches, and get(p) with no
\* default fails with NotFound.
C3_RemoveThenGet ==
    (last.op = "remove" /\ last.index = NoneN /\ last.err = "OK") =>
        LET c == NodeAt(configuration_data, ContainerPath(last.key))
        IN /\ c.t = "map"
           /\ TargetKey(last.key) \notin DOMAIN c.kv
           /\ GetNow(last.key).err = "KeyError"

(***************************************************************************)
(* C4                                                                      *)
(***************************************************************************)
\* C4: add(p, v) with replace=false whose target key exists and holds a value
\* that is not a Sequence fails with DuplicateKey, and the target key's value
\* is the same after the call as before it.
C4_AddDuplicateKey ==
    LET old == NodeAt(last.pre, Segments(last.key))
    IN (last.op = "add" /\ ~last.replace /\ old.t \notin {"absent", "list"}) =>
           /\ last.err = "DuplicateKey"
           /\ NodeAt(configuration_data, Segments(last.key)) = old

(***************************************************************************)
(* C5                                                                      *)
(***************************************************************************)
\* C5: when get(p) reaches a Scalar, a string included, while segments of p
\* remain, it returns that scalar, with no error.
C5_ScalarStopsWalk ==
    (last.op = "get" /\ last.key # <<>>) =>
        LET w == Walk(last.pre, Segments(last.key), TRUE)
        IN w.err = "Scalar" => Outcome = Ok(w.val)

(***************************************************************************)
(* C6                                                                      *)
(***************************************************************************)
\* the root and every node the container path names are Mappings, as far as
\* the path exists
MappingsAlong(tree, path) ==
    /\ tree.t = "map"
    /\ \A n \in 1..Len(path) : NodeAt(tree, SubSeq(path, 1, n)).t \in {"map", "absent"}

C7_RemoveIndex ==
    LET old == NodeAt(last.pre, Segments(last.key))
    IN (last.op = "remove" /\ last.index.t = "int" /\ old.t = "list") =>
           IF ValidIndex(Len(old.items), last.index.n, TRUE)
           THEN /\ last.err = "OK"
                /\ configuration_data =
                       ReplaceAt(last.pre, Segments(last.key),
                                 ListN(WithoutItem(old.items,
                                                   Position(Len(old.items), last.index.n))))
           ELSE last.err = "IndexError" /\ configuration_data = last.pre

(***************************************************************************)
(* C8                                                                      *)
(***************************************************************************)
RECURSIVE VivifiedOnly(_, _, _)
\* new is old, but for empty Mappings newly created along path
VivifiedOnly(old, new, path) ==
    \/ new = old
    \/ /\ path # <<>> /\ old.t = "map" /\ new.t = "map"
       /\ DOMAIN new.kv = DOMAIN old.kv \cup {Head(path)}
       /\ \A k \in DOMAIN old.kv \ {Head(path)} : new.kv[k] = old.kv[k]
       /\ VivifiedOnly(IF Head(path) \in DOMAIN old.kv THEN old.kv[Head(path)] ELSE EmptyMap,
                       new.kv[Head(path)], Tail(path))

\* C8: a get, add or remove that fails leaves the tree exactly as it was, but
\* that a failed add may leave empty Mappings it created on the container path.
C8_FailedCallKeepsTree ==
    (last.op \in {"get", "add", "remove"} /\ last.err # "OK") =>
        \/ configuration_data = last.pre
        \/ last.op = "add" /\ VivifiedOnly(last.pre, configuration_data,
                                           ContainerPath(last.key))

\* an add has failed with DuplicateKey
C8_Witness ==
    /\ last.op = "add" /\ last.err = "DuplicateKey"
    /\ NodeAt(last.pre, Segments(last.key)).t \in Scalars

(***************************************************************************)
(* C9                                                                      *)
(***************************************************************************)
\* the format section 6 gives for a file extension, NoHandler for any other
FormatOf(ext) ==
    IF ext \in {<<"i", "n", "i">>, <<"c", "o", "n", "f">>} THEN "ini"
    ELSE IF ext \in {<<"y", "a", "m", "l">>, <<"y", "m", "l">>} THEN "yaml"
    ELSE IF ext = <<"j", "s", "o", "n">> THEN "json"
    ELSE NoHandler

\* value has a .py extension, or a file value.py exists
PythonSource(value) ==
    splitext_ext(value) = <<"p", "y">> \/ isfile(value \o <<".", "p", "y">>)

\* the path of the scripted source: value, with .py appended if missing
PythonPath(value) ==
    IF splitext_ext(value) = <<"p", "y">> THEN value ELSE value \o <<".", "p", "y">>

\* the import has loaded data with the Handler h: the tree is what h loads,
\* or the load has failed and the tree is as before
Loaded(h, data) ==
    /\ handler = h
    /\ LET r == load(h, data)
       IN IF r.err = "OK"
          THEN last.err = "OK" /\ configuration_data = r.val
          ELSE last.err = r.err /\ configuration_data = last.pre

\* the import has failed with e, before a load
Failed(e) == last.err = e /\ configuration_data = last.pre

\* C9, as stated: import_config(value) takes its Handler by the first rule that
\* applies: (1) a native mapping: dict; (2) an existing file whose extension is
\* a known format: that format; (3) a .py extension or an existing value.py:
\* the scripted source, FileNotFound when the path does not exist; (4), (5) no
\* Handler set: UnresolvedHandler.
C9_HandlerByFirstRule ==
    last.op = "import_config" =>
        LET v == last.value
        IN IF v.t = "map" THEN Loaded("dict", v)
           ELSE IF isfile(v.s) /\ FormatOf(splitext_ext(v.s)) # NoHandler
                THEN Loaded(FormatOf(splitext_ext(v.s)), StrN(read(v.s)))
           ELSE IF PythonSource(v.s)
                THEN /\ handler = "file"
                     /\ ~isfile(PythonPath(v.s)) => last.err = "IOError"
           ELSE last.preh = NoHandler => Failed("UnresolvedHandler")

\* C9, amended: import_config(value) takes its Handler by the first rule that
\* applies: (1) a native mapping: dict; (2) an existing file that is not a
\* scripted source: the Handler already active, whether set on construction or
\* left by an earlier import, else the format of the extension, else
\* UnresolvedHandler; (3) a .py extension or an existing value.py: the scripted
\* source, FileNotFound when the path does not exist; (4) a Handler is active:
\* that Handler, with value as raw content; (5) otherwise UnresolvedHandler.
C9_HandlerByActiveThenExtension ==
    last.op = "import_config" =>
        LET v == last.value
        IN IF v.t = "map" THEN Loaded("dict", v)
           ELSE IF isfile(v.s) /\ ~PythonSource(v.s) THEN
               LET h == IF last.preh # NoHandler THEN last.preh
                        ELSE FormatOf(splitext_ext(v.s))
               IN IF h = NoHandler
                  THEN Failed("UnresolvedHandler") /\ handler = NoHandler
                  ELSE Loaded(h, StrN(read(v.s)))
           ELSE IF PythonSource(v.s) THEN
               IF isfile(PythonPath(v.s))
               THEN Loaded("file", StrN(abspath(PythonPath(v.s))))
               ELSE Failed("IOError") /\ handler = "file"
           ELSE IF last.preh # NoHandler THEN Loaded(last.preh, v)
           ELSE Failed("UnresolvedHandler") /\ handler = NoHandler

\* an existing .yml file has been imported with the JSON Handler that was active
C9_Witness ==
    /\ last.op = "import_config"
    /\ last.value = StrN(<<"s", ".", "y", "m", "l">>)
    /\ last.preh = "json"
    /\ handler = "json"
    /\ last.err = "LoadError"

(***************************************************************************)
(* C10                                                                     *)
(***************************************************************************)
\* C10: get, add, remove, upsert and export never change the active Handler; an
\* import_config that fails changes neither the active Handler nor the tree;
\* export() with no argument serializes the tree with the active Handler and
\* fails when there is none.
C10_ActiveHandlerSticky ==
    /\ last.op \in {"get", "add", "remove", "upsert", "export"} => handler = last.preh
    /\ (last.op = "import_config" /\ last.err # "OK") =>
           handler = last.preh /\ configuration_data = last.pre
    /\ (last.op = "export" /\ last.value.name = NoHandler) =>
           IF last.preh = NoHandler THEN last.err # "OK"
           ELSE Outcome = Ok(dump(last.preh, last.pre))

====
